---- MODULE Spec2Model ----
(***************************************************************************)
(* State machine of the App component (src/App.tsx): the React state of    *)
(* the component, the registry of realtime subscriptions, the requests in  *)
(* flight to the backend service, and the backend's rows as far as the     *)
(* component reads and writes them.                                        *)
(*                                                                         *)
(* One step of the model is one macrotask of the UI thread: a UI event     *)
(* handler up to its first await, the continuation of a handler after an   *)
(* await settles (with everything that follows it in microtasks), one      *)
(* inbound realtime event, or one phase of the passive-effect flush.       *)
(***************************************************************************)
EXTENDS Integers, Sequences, FiniteSets, TLC

VARIABLES
    user,                \* useState<User | null>            (line 24)
    storedUser,          \* localStorage['discordia_user']   (lines 61, 130)
    servers,             \* useState<Server[]>               (line 25)
    activeServerId,      \* line 26
    activeChannelId,     \* line 27
    isVoiceConnected,    \* line 28
    isLoading,           \* line 29
    isMuted,             \* line 32
    isDeafened,          \* line 33
    draft,               \* the server record ServerSettingsModal was given (line 362)
    realtimeChannelsRef, \* keys of the registry Map          (line 44)
    subscriptions,       \* open realtime subscriptions at the service, per channel id
    effectDep,           \* value of activeChannelId seen by the last run of the effect (line 124)
    effectCleanup,       \* channel id captured by the pending cleanup closure (lines 118-123)
    mounted,             \* the component is mounted
    pending,             \* remote calls in flight, each with the closure that awaits it
    db,                  \* the backend's server rows
    sent,                \* the backend's message rows
    alert,               \* text of the alert() raised by the last step, or NoAlert
    arrivals             \* history: inbound realtime events seen by the bridge handler

vars == <<user, storedUser, servers, activeServerId, activeChannelId,
          isVoiceConnected, isLoading, isMuted, isDeafened, draft,
          realtimeChannelsRef, subscriptions, effectDep, effectCleanup, mounted,
          pending, db, sent, alert, arrivals>>

(***************************************************************************)
(* Bounds of the model.                                                    *)
(***************************************************************************)
MaxCreate   == 1     \* servers created through handleCreateServer
MaxPending  == 2     \* remote calls in flight at the same time
MaxSent     == 2     \* message rows written to the backend
MaxArrivals == 4     \* inbound events recorded in the bridge specification

(***************************************************************************)
(* Values.                                                                 *)
(***************************************************************************)
NoId       == 0                 \* null identifier
NoUser     == "null"            \* user === null
NoPassword == ""                \* password undefined
NoAlert    == ""
Me         == "u1"              \* the identity that logs in on this client
Other      == "u2"              \* some other member

Channel(id, type) == [id |-> id, type |-> type, messages |-> <<>>]

NoChannel == [id |-> NoId, type |-> "none", messages |-> <<>>]

NoServer == [id |-> NoId, name |-> "", password |-> NoPassword,
             channels |-> <<>>, members |-> {}]

\* services/db getDefaultChannels, with the uuids of line 167 drawn from the
\* server's own identifier.
getDefaultChannels(sid) ==
    << Channel(10 * sid + 1, "text"), Channel(10 * sid + 2, "voice") >>

\* The Server record built by handleCreateServer.
NewServer(sid, name, password, owner) ==
    [id |-> sid, name |-> name, password |-> password,
     channels |-> getDefaultChannels(sid), members |-> {owner}]

\* Rows the backend holds before this client acts: one open server the user
\* belongs to, and one password-protected server of another user whose voice
\* channel comes before its text channel.
BaseServers ==
    << [id |-> 1, name |-> "alpha", password |-> NoPassword,
        channels |-> << Channel(11, "text"), Channel(12, "voice") >>,
        members |-> {Me, Other}],
       [id |-> 2, name |-> "beta", password |-> "pw",
        channels |-> << Channel(21, "voice"), Channel(22, "text") >>,
        members |-> {Other}] >>

\* The same rows with a second server that has no text channel at all.
VoiceOnlyServers ==
    << BaseServers[1],
       [BaseServers[2] EXCEPT !.channels = << Channel(21, "voice") >>] >>

RowSets == {BaseServers, VoiceOnlyServers}

BaseCount == Len(BaseServers)

CreatedIds == (BaseCount + 1) .. (BaseCount + MaxCreate)

ServerIds == 1 .. (BaseCount + MaxCreate)

ChannelIds == UNION { {10 * s + 1, 10 * s + 2} : s \in ServerIds }

MsgIds == 1 .. MaxSent

JoinNames == {"alpha", "beta", "nope"}

JoinPasswords == {NoPassword, "pw", "bad"}

(***************************************************************************)
(* Array helpers, as the code uses them.                                   *)
(***************************************************************************)
\* Array.prototype.find on servers by id.
FindServerById(list, id) ==
    IF \E i \in DOMAIN list : list[i].id = id
    THEN list[CHOOSE i \in DOMAIN list :
                /\ list[i].id = id
                /\ \A j \in DOMAIN list : list[j].id = id => i <= j]
    ELSE NoServer

\* Array.prototype.find on servers by name.
FindServerByName(list, name) ==
    IF \E i \in DOMAIN list : list[i].name = name
    THEN list[CHOOSE i \in DOMAIN list :
                /\ list[i].name = name
                /\ \A j \in DOMAIN list : list[j].name = name => i <= j]
    ELSE NoServer

\* server?.channels.find(c => c.id === id)
FindChannel(server, id) ==
    IF \E i \in DOMAIN server.channels : server.channels[i].id = id
    THEN server.channels[CHOOSE i \in DOMAIN server.channels :
                /\ server.channels[i].id = id
                /\ \A j \in DOMAIN server.channels :
                       server.channels[j].id = id => i <= j]
    ELSE NoChannel

\* server?.channels.find(c => c.type === 'text')
FindTextChannel(server) ==
    IF \E i \in DOMAIN server.channels : server.channels[i].type = "text"
    THEN server.channels[CHOOSE i \in DOMAIN server.channels :
                /\ server.channels[i].type = "text"
                /\ \A j \in DOMAIN server.channels :
                       server.channels[j].type = "text" => i <= j]
    ELSE NoChannel

activeServer == FindServerById(servers, activeServerId)

activeChannel == FindChannel(activeServer, activeChannelId)

\* Which of the top-level render branches is on screen.
Panel ==
    IF isLoading THEN "loading"
    ELSE IF user = NoUser THEN "login"
    ELSE IF activeChannel # NoChannel /\ ~isVoiceConnected
            /\ activeChannel.type = "text" THEN "ChatArea"
    ELSE IF activeChannel # NoChannel /\ isVoiceConnected
            /\ activeChannel.type = "voice" THEN "VoiceStage"
    ELSE IF activeServer = NoServer THEN "placeholder"
    ELSE "empty"

\* The main layout (ServerList and the modals) is rendered.
MainShown == ~isLoading /\ user # NoUser

\* Identifiers of the message lists of a server list, per channel.
MessagesOf(list, cid) ==
    LET hits == { <<i, j>> \in (DOMAIN list) \X (1 .. 2) :
                    j \in DOMAIN list[i].channels /\ list[i].channels[j].id = cid }
    IN  IF hits = {} THEN <<>>
        ELSE LET h == CHOOSE x \in hits : TRUE
             IN  list[h[1]].channels[h[2]].messages

LoadedChannelIds(list) ==
    { list[i].channels[j].id : <<i, j>> \in
        { p \in (DOMAIN list) \X (1 .. 2) : p[2] \in DOMAIN list[p[1]].channels } }

LoadedTextChannelIds(list) ==
    { c \in LoadedChannelIds(list) :
        \E i \in DOMAIN list : FindChannel(list[i], c).type = "text" }

(***************************************************************************)
(* The backend service (services/supabase), as the component uses it.      *)
(***************************************************************************)
\* list-servers-for-user: the rows the service returns for the user.  The list
\* may hold servers the user is no member of: handleJoinServer looks its
\* target up in this list and then tests membership (lines 196, 203).
\* Channels come back without their messages.
getServersForUser(userId) == db

\* create-server: the row is appended.
createServerInDB(rows, newServer) == Append(rows, newServer)

\* join-server: the user is added to the member list of the row.
joinServerInDB(rows, sid, userId) ==
    [i \in DOMAIN rows |->
        IF rows[i].id = sid
        THEN [rows[i] EXCEPT !.members = @ \cup {userId}]
        ELSE rows[i]]

\* A remote call in flight together with what the awaiting closure captured.
Req(op, stage, closure, snap, sid, cid, mid, who) ==
    [op |-> op, stage |-> stage, closureActive |-> closure, snap |-> snap,
     sid |-> sid, cid |-> cid, mid |-> mid, who |-> who]

CanIssue == Cardinality(pending) < MaxPending

\* uuidv4(): an identifier nothing else holds.
FreshServerIds ==
    { s \in CreatedIds :
        /\ \A i \in DOMAIN db : db[i].id # s
        /\ \A r \in pending : r.sid # s }

FreshMsgIds ==
    { m \in MsgIds :
        /\ \A x \in sent : x.id # m
        /\ \A r \in pending : r.mid # m }

Least(S) == CHOOSE x \in S : \A y \in S : x <= y

\* No passive effect is waiting to be flushed: the next macrotask may run.
Idle == mounted /\ effectDep = activeChannelId

InitWith(rows) ==
    /\ user = NoUser
    /\ storedUser \in {NoUser, Me}
    /\ servers = <<>>
    /\ activeServerId = NoId
    /\ activeChannelId = NoId
    /\ isVoiceConnected = FALSE
    /\ isLoading = TRUE
    /\ isMuted = FALSE
    /\ isDeafened = FALSE
    /\ draft = NoServer
    /\ realtimeChannelsRef = {}
    /\ subscriptions = [c \in ChannelIds |-> 0]
    /\ effectDep = NoId
    /\ effectCleanup = NoId
    /\ mounted = TRUE
    /\ pending = {}
    /\ db = rows
    /\ sent = {}
    /\ alert = NoAlert
    /\ arrivals = <<>>

Init == InitWith(BaseServers)

\* The component started against any of the row sets.
InitAnyRows == \E rows \in RowSets : InitWith(rows)

\* A load whose failure path empties the list and clears the selection.
loadUserServersResetsOnFailure(r, ok) ==
    IF ok
    THEN [servers |-> r.snap,
          activeServerId |->
              IF Len(r.snap) > 0 /\ r.closureActive = NoId
              THEN r.snap[1].id ELSE activeServerId,
          activeChannelId |->
              IF Len(r.snap) > 0 /\ r.closureActive = NoId
              THEN r.snap[1].channels[1].id ELSE activeChannelId]
    ELSE [servers |-> <<>>,
          activeServerId |-> NoId,
          activeChannelId |-> NoId]

(***************************************************************************)
(* loadUserServers (lines 46-58): what the continuation after the await    *)
(* leaves in servers, activeServerId and activeChannelId.  closureActive   *)
(* is the activeServerId of the render the calling closure belongs to.     *)
(***************************************************************************)
loadUserServers(r, ok) ==
    IF ok
    THEN [servers |-> r.snap,
          activeServerId |->
              IF Len(r.snap) > 0 /\ r.closureActive = NoId
              THEN r.snap[1].id ELSE activeServerId,
          activeChannelId |->
              IF Len(r.snap) > 0 /\ r.closureActive = NoId
              THEN r.snap[1].channels[1].id ELSE activeChannelId]
    ELSE [servers |-> servers,
          activeServerId |-> activeServerId,
          activeChannelId |-> activeChannelId]

\* The mount effect (lines 60-68).
Bootstrap ==
    /\ mounted /\ isLoading
    /\ isLoading' = FALSE
    /\ IF storedUser # NoUser
       THEN /\ user' = storedUser
            /\ pending' = pending \cup
                 { Req("bootstrap", "load", activeServerId,
                       getServersForUser(storedUser), NoId, NoId, NoId, storedUser) }
       ELSE UNCHANGED <<user, pending>>
    /\ alert' = NoAlert
    /\ UNCHANGED <<storedUser, servers, activeServerId, activeChannelId,
                   isVoiceConnected, isMuted, isDeafened, draft,
                   realtimeChannelsRef, subscriptions, effectDep, effectCleanup,
                   mounted, db, sent, arrivals>>

\* handleLogin up to its first await (lines 126-128).
handleLogin(newUser) ==
    /\ Idle /\ Panel = "login" /\ CanIssue
    /\ pending' = pending \cup
         { Req("login", "upsert", activeServerId, <<>>, NoId, NoId, NoId, newUser) }
    /\ alert' = NoAlert
    /\ UNCHANGED <<user, storedUser, servers, activeServerId, activeChannelId,
                   isVoiceConnected, isLoading, isMuted, isDeafened, draft,
                   realtimeChannelsRef, subscriptions, effectDep, effectCleanup,
                   mounted, db, sent, arrivals>>

\* handleLogin after upsertUser settles (lines 129-135).
handleLoginUpsertSettles(r, ok) ==
    /\ Idle /\ r \in pending /\ r.op = "login" /\ r.stage = "upsert"
    /\ IF ok
       THEN /\ user' = r.who
            /\ storedUser' = r.who
            /\ pending' = (pending \ {r}) \cup
                 { Req("login", "load", r.closureActive,
                       getServersForUser(r.who), NoId, NoId, NoId, r.who) }
            /\ alert' = NoAlert
       ELSE /\ pending' = pending \ {r}
            /\ alert' = "Login failed. Please try again."
            /\ UNCHANGED <<user, storedUser>>
    /\ UNCHANGED <<servers, activeServerId, activeChannelId,
                   isVoiceConnected, isLoading, isMuted, isDeafened, draft,
                   realtimeChannelsRef, subscriptions, effectDep, effectCleanup,
                   mounted, db, sent, arrivals>>

\* The continuation of a loadUserServers called by the mount effect (line 65)
\* or by handleLogin (line 131): nothing follows it.
loadUserServersSettles(r, ok) ==
    /\ Idle /\ r \in pending /\ r.op \in {"bootstrap", "login"} /\ r.stage = "load"
    /\ LET res == loadUserServers(r, ok)
       IN  /\ servers' = res.servers
           /\ activeServerId' = res.activeServerId
           /\ activeChannelId' = res.activeChannelId
    /\ pending' = pending \ {r}
    /\ alert' = NoAlert
    /\ UNCHANGED <<user, storedUser, isVoiceConnected, isLoading, isMuted,
                   isDeafened, draft, realtimeChannelsRef, subscriptions,
                   effectDep, effectCleanup, mounted, db, sent, arrivals>>

\* handleCreateServer up to its first await (lines 159-178).  The request
\* carries newServer in its snap field until the write settles.
handleCreateServer(name, password) ==
    /\ Idle /\ MainShown /\ CanIssue
    /\ FreshServerIds # {}
    /\ LET sid == Least(FreshServerIds)
           newServer == NewServer(sid, name, password, user)
       IN  pending' = pending \cup
             { Req("create", "create", activeServerId, <<newServer>>,
                   sid, newServer.channels[1].id, NoId, user) }
    /\ alert' = NoAlert
    /\ UNCHANGED <<user, storedUser, servers, activeServerId, activeChannelId,
                   isVoiceConnected, isLoading, isMuted, isDeafened, draft,
                   realtimeChannelsRef, subscriptions, effectDep, effectCleanup,
                   mounted, db, sent, arrivals>>

\* handleCreateServer after createServerInDB settles (lines 178-179, 182-185).
handleCreateServerWriteSettles(r, ok) ==
    /\ Idle /\ r \in pending /\ r.op = "create" /\ r.stage = "create"
    /\ IF ok
       THEN /\ db' = createServerInDB(db, r.snap[1])
            /\ pending' = (pending \ {r}) \cup
                 { Req("create", "load", r.closureActive,
                       createServerInDB(db, r.snap[1]), r.sid, r.cid, NoId, r.who) }
            /\ alert' = NoAlert
       ELSE /\ pending' = pending \ {r}
            /\ alert' = "Failed to create server. Please try again."
            /\ UNCHANGED db
    /\ UNCHANGED <<user, storedUser, servers, activeServerId, activeChannelId,
                   isVoiceConnected, isLoading, isMuted, isDeafened, draft,
                   realtimeChannelsRef, subscriptions, effectDep, effectCleanup,
                   mounted, sent, arrivals>>

\* handleCreateServer after its loadUserServers settles (lines 179-181).
handleCreateServerLoadSettles(r, ok) ==
    /\ Idle /\ r \in pending /\ r.op = "create" /\ r.stage = "load"
    /\ servers' = loadUserServers(r, ok).servers
    /\ activeServerId' = r.sid
    /\ activeChannelId' = r.cid
    /\ pending' = pending \ {r}
    /\ alert' = NoAlert
    /\ UNCHANGED <<user, storedUser, isVoiceConnected, isLoading, isMuted,
                   isDeafened, draft, realtimeChannelsRef, subscriptions,
                   effectDep, effectCleanup, mounted, db, sent, arrivals>>

\* A password check that is skipped when the form's password field is empty.
passwordRejectedWhenTyped(target, password) ==
    password # NoPassword /\ target.password # NoPassword /\ target.password # password

\* The password test of line 198.
passwordRejected(target, password) ==
    target.password # NoPassword /\ target.password # password

\* handleJoinServer up to its first await or its return (lines 193-219).
\* pending is a set: the write is taken to be issued while no identical call
\* (same target, same closure) is still in flight.
handleJoinServer(name, password) ==
    /\ Idle /\ MainShown
    /\ LET target == FindServerByName(servers, name)
           write  == Req("join", "join", activeServerId, <<>>, target.id,
                         target.channels[1].id, NoId, user)
       IN  IF target = NoServer
           THEN /\ alert' = "Server not found."
                /\ UNCHANGED <<activeServerId, activeChannelId, pending>>
           ELSE IF passwordRejected(target, password)
           THEN /\ alert' = "Incorrect password!"
                /\ UNCHANGED <<activeServerId, activeChannelId, pending>>
           ELSE IF user \notin target.members
           THEN /\ CanIssue /\ write \notin pending
                /\ pending' = pending \cup {write}
                /\ alert' = NoAlert
                /\ UNCHANGED <<activeServerId, activeChannelId>>
           ELSE /\ activeServerId' = target.id
                /\ activeChannelId' = target.channels[1].id
                /\ alert' = NoAlert
                /\ UNCHANGED pending
    /\ UNCHANGED <<user, storedUser, servers, isVoiceConnected, isLoading,
                   isMuted, isDeafened, draft, realtimeChannelsRef, subscriptions,
                   effectDep, effectCleanup, mounted, db, sent, arrivals>>

\* A join whose rejected write still moves the selection to the target.
handleJoinServerWriteSettlesSelects(r, ok) ==
    /\ Idle /\ r \in pending /\ r.op = "join" /\ r.stage = "join"
    /\ IF ok
       THEN /\ db' = joinServerInDB(db, r.sid, r.who)
            /\ pending' = (pending \ {r}) \cup
                 { Req("join", "load", r.closureActive,
                       joinServerInDB(db, r.sid, r.who), r.sid, r.cid, NoId, r.who) }
            /\ alert' = NoAlert
            /\ UNCHANGED <<activeServerId, activeChannelId>>
       ELSE /\ pending' = pending \ {r}
            /\ alert' = "Failed to join server. Please try again."
            /\ activeServerId' = r.sid
            /\ activeChannelId' = r.cid
            /\ UNCHANGED db
    /\ UNCHANGED <<user, storedUser, servers,
                   isVoiceConnected, isLoading, isMuted, isDeafened, draft,
                   realtimeChannelsRef, subscriptions, effectDep, effectCleanup,
                   mounted, sent, arrivals>>

\* handleJoinServer after joinServerInDB settles (lines 205-211).
handleJoinServerWriteSettles(r, ok) ==
    /\ Idle /\ r \in pending /\ r.op = "join" /\ r.stage = "join"
    /\ IF ok
       THEN /\ db' = joinServerInDB(db, r.sid, r.who)
            /\ pending' = (pending \ {r}) \cup
                 { Req("join", "load", r.closureActive,
                       joinServerInDB(db, r.sid, r.who), r.sid, r.cid, NoId, r.who) }
            /\ alert' = NoAlert
       ELSE /\ pending' = pending \ {r}
            /\ alert' = "Failed to join server. Please try again."
            /\ UNCHANGED db
    /\ UNCHANGED <<user, storedUser, servers, activeServerId, activeChannelId,
                   isVoiceConnected, isLoading, isMuted, isDeafened, draft,
                   realtimeChannelsRef, subscriptions, effectDep, effectCleanup,
                   mounted, sent, arrivals>>

\* handleJoinServer after its loadUserServers settles (lines 206, 214-215).
handleJoinServerLoadSettles(r, ok) ==
    /\ Idle /\ r \in pending /\ r.op = "join" /\ r.stage = "load"
    /\ servers' = loadUserServers(r, ok).servers
    /\ activeServerId' = r.sid
    /\ activeChannelId' = r.cid
    /\ pending' = pending \ {r}
    /\ alert' = NoAlert
    /\ UNCHANGED <<user, storedUser, isVoiceConnected, isLoading, isMuted,
                   isDeafened, draft, realtimeChannelsRef, subscriptions,
                   effectDep, effectCleanup, mounted, db, sent, arrivals>>

(***************************************************************************)
(* Messages.                                                               *)
(***************************************************************************)
Msg(id, channelId, senderId) ==
    [id |-> id, channelId |-> channelId, senderId |-> senderId]

\* handleSendMessage up to its await (lines 138-153).
handleSendMessage(channelId) ==
    /\ Idle /\ user # NoUser /\ CanIssue
    /\ FreshMsgIds # {}
    /\ pending' = pending \cup
         { Req("send", "send", NoId, <<>>, NoId, channelId, Least(FreshMsgIds), user) }
    /\ alert' = NoAlert
    /\ UNCHANGED <<user, storedUser, servers, activeServerId, activeChannelId,
                   isVoiceConnected, isLoading, isMuted, isDeafened, draft,
                   realtimeChannelsRef, subscriptions, effectDep, effectCleanup,
                   mounted, db, sent, arrivals>>

\* ChatArea's onSendMessage (line 305), for the channel it shows.
onSendMessage ==
    /\ Panel = "ChatArea"
    /\ handleSendMessage(activeChannel.id)

\* The 'gemini-response' listener (lines 71-84): the event names its channel.
handleGeminiResponse(channelId) ==
    /\ ~isLoading
    /\ channelId \in LoadedTextChannelIds(servers)
    /\ handleSendMessage(channelId)

\* A send that also inserts the message locally once the write resolves.
handleSendMessageSettlesOptimistic(r, ok) ==
    /\ Idle /\ r \in pending /\ r.op = "send"
    /\ sent' = IF ok THEN sent \cup {Msg(r.mid, r.cid, r.who)} ELSE sent
    /\ servers' = IF ok
                  THEN [i \in DOMAIN servers |->
                         [servers[i] EXCEPT !.channels =
                            [j \in DOMAIN servers[i].channels |->
                               IF servers[i].channels[j].id = r.cid
                               THEN [servers[i].channels[j] EXCEPT
                                        !.messages = Append(@, r.mid)]
                               ELSE servers[i].channels[j]]]]
                  ELSE servers
    /\ pending' = pending \ {r}
    /\ alert' = NoAlert
    /\ UNCHANGED <<user, storedUser, activeServerId, activeChannelId,
                   isVoiceConnected, isLoading, isMuted, isDeafened, draft,
                   realtimeChannelsRef, subscriptions, effectDep, effectCleanup,
                   mounted, db, arrivals>>

\* handleSendMessage after sendMessageToDB settles (lines 153-156).
handleSendMessageSettles(r, ok) ==
    /\ Idle /\ r \in pending /\ r.op = "send"
    /\ sent' = IF ok THEN sent \cup {Msg(r.mid, r.cid, r.who)} ELSE sent
    /\ pending' = pending \ {r}
    /\ alert' = NoAlert
    /\ UNCHANGED <<user, storedUser, servers, activeServerId, activeChannelId,
                   isVoiceConnected, isLoading, isMuted, isDeafened, draft,
                   realtimeChannelsRef, subscriptions, effectDep, effectCleanup,
                   mounted, db, arrivals>>

\* Another client writes a message row into a channel this client listens to.
OtherClientSends(channelId) ==
    /\ Idle /\ subscriptions[channelId] > 0
    /\ FreshMsgIds # {}
    /\ sent' = sent \cup {Msg(Least(FreshMsgIds), channelId, Other)}
    /\ alert' = NoAlert
    /\ UNCHANGED <<user, storedUser, servers, activeServerId, activeChannelId,
                   isVoiceConnected, isLoading, isMuted, isDeafened, draft,
                   realtimeChannelsRef, subscriptions, effectDep, effectCleanup,
                   mounted, pending, db, arrivals>>

\* The updater without the test of line 106: every event is appended.
MergeMessageNoDedup(prevServers, newMessage) ==
    [i \in DOMAIN prevServers |->
        [prevServers[i] EXCEPT !.channels =
            [j \in DOMAIN prevServers[i].channels |->
                LET ch == prevServers[i].channels[j]
                IN  IF ch.id = newMessage.channelId
                    THEN [ch EXCEPT !.messages = Append(@, newMessage.id)]
                    ELSE ch]]]

\* An updater that puts a new message at the head of the list.
MergeMessageAtFront(prevServers, newMessage) ==
    [i \in DOMAIN prevServers |->
        [prevServers[i] EXCEPT !.channels =
            [j \in DOMAIN prevServers[i].channels |->
                LET ch == prevServers[i].channels[j]
                IN  IF /\ ch.id = newMessage.channelId
                       /\ \A k \in DOMAIN ch.messages : ch.messages[k] # newMessage.id
                    THEN [ch EXCEPT !.messages = <<newMessage.id>> \o @]
                    ELSE ch]]]

\* The updater the bridge handler passes to setServers (lines 97-113).
MergeMessage(prevServers, newMessage) ==
    [i \in DOMAIN prevServers |->
        LET server == prevServers[i]
        IN  IF ~ \E j \in DOMAIN server.channels :
                     server.channels[j].id = newMessage.channelId
            THEN server
            ELSE [server EXCEPT !.channels =
                    [j \in DOMAIN server.channels |->
                        LET ch == server.channels[j]
                        IN  IF ch.id = newMessage.channelId
                            THEN IF \E k \in DOMAIN ch.messages :
                                        ch.messages[k] = newMessage.id
                                 THEN ch
                                 ELSE [ch EXCEPT !.messages = Append(@, newMessage.id)]
                            ELSE ch]]]

\* An inbound realtime event reaches the handler of an open subscription
\* (lines 96-114).  The service may repeat and reorder the rows it delivers.
Deliver(newMessage) ==
    /\ Idle
    /\ subscriptions[newMessage.channelId] > 0
    /\ newMessage \in sent
    /\ servers' = MergeMessage(servers, newMessage)
    /\ alert' = NoAlert
    /\ UNCHANGED <<user, storedUser, activeServerId, activeChannelId,
                   isVoiceConnected, isLoading, isMuted, isDeafened, draft,
                   realtimeChannelsRef, subscriptions, effectDep, effectCleanup,
                   mounted, pending, db, sent>>

\* The same step with the event appended to the history of arrivals.
onMessage(newMessage) ==
    /\ Len(arrivals) < MaxArrivals
    /\ Deliver(newMessage)
    /\ arrivals' = Append(arrivals, newMessage)

(***************************************************************************)
(* Selection and the voice/text display.                                   *)
(***************************************************************************)
\* ServerList's onSelectServer (lines 265-270).
onSelectServer(id) ==
    /\ Idle /\ MainShown
    /\ \E i \in DOMAIN servers : servers[i].id = id
    /\ activeServerId' = id
    /\ LET server == FindServerById(servers, id)
       IN  activeChannelId' =
             IF server # NoServer THEN server.channels[1].id ELSE activeChannelId
    /\ isVoiceConnected' = FALSE
    /\ alert' = NoAlert
    /\ UNCHANGED <<user, storedUser, servers, isLoading, isMuted, isDeafened,
                   draft, realtimeChannelsRef, subscriptions, effectDep,
                   effectCleanup, mounted, pending, db, sent, arrivals>>

\* A selection that marks voice as connected whatever the channel's type.
onSelectChannelAlwaysVoice(id) ==
    /\ Idle /\ MainShown /\ activeServer # NoServer
    /\ \E j \in DOMAIN activeServer.channels : activeServer.channels[j].id = id
    /\ isVoiceConnected' = TRUE
    /\ activeChannelId' = id
    /\ alert' = NoAlert
    /\ UNCHANGED <<user, storedUser, servers, activeServerId, isLoading, isMuted,
                   isDeafened, draft, realtimeChannelsRef, subscriptions,
                   effectDep, effectCleanup, mounted, pending, db, sent, arrivals>>

\* ChannelList's onSelectChannel (lines 280-288).
onSelectChannel(id) ==
    /\ Idle /\ MainShown /\ activeServer # NoServer
    /\ \E j \in DOMAIN activeServer.channels : activeServer.channels[j].id = id
    /\ LET ch == FindChannel(activeServer, id)
       IN  isVoiceConnected' = (ch # NoChannel /\ ch.type = "voice")
    /\ activeChannelId' = id
    /\ alert' = NoAlert
    /\ UNCHANGED <<user, storedUser, servers, activeServerId, isLoading, isMuted,
                   isDeafened, draft, realtimeChannelsRef, subscriptions,
                   effectDep, effectCleanup, mounted, pending, db, sent, arrivals>>

\* A leave that falls back to the server's first channel, whatever its type.
onLeaveToFirstChannel ==
    /\ Idle /\ Panel = "VoiceStage"
    /\ isVoiceConnected' = FALSE
    /\ activeChannelId' = activeServer.channels[1].id
    /\ alert' = NoAlert
    /\ UNCHANGED <<user, storedUser, servers, activeServerId, isLoading, isMuted,
                   isDeafened, draft, realtimeChannelsRef, subscriptions,
                   effectDep, effectCleanup, mounted, pending, db, sent, arrivals>>

\* VoiceStage's onLeave (lines 314-318).
onLeave ==
    /\ Idle /\ Panel = "VoiceStage"
    /\ isVoiceConnected' = FALSE
    /\ LET txt == FindTextChannel(activeServer)
       IN  activeChannelId' = IF txt # NoChannel THEN txt.id ELSE activeChannelId
    /\ alert' = NoAlert
    /\ UNCHANGED <<user, storedUser, servers, activeServerId, isLoading, isMuted,
                   isDeafened, draft, realtimeChannelsRef, subscriptions,
                   effectDep, effectCleanup, mounted, pending, db, sent, arrivals>>

(***************************************************************************)
(* Audio toggles: ChannelList and VoiceStage both offer them.              *)
(***************************************************************************)
\* The toggle the comment of line 223 describes: unmuting turns deafen off.
toggleMuteUndeafens ==
    /\ Idle /\ MainShown /\ activeServer # NoServer
    /\ isMuted' = IF isMuted THEN FALSE ELSE TRUE
    /\ isDeafened' = IF isMuted THEN FALSE ELSE isDeafened
    /\ alert' = NoAlert
    /\ UNCHANGED <<user, storedUser, servers, activeServerId, activeChannelId,
                   isVoiceConnected, isLoading, draft,
                   realtimeChannelsRef, subscriptions, effectDep, effectCleanup,
                   mounted, pending, db, sent, arrivals>>

\* toggleMute (lines 222-229).
toggleMute ==
    /\ Idle /\ MainShown /\ activeServer # NoServer
    /\ isMuted' = IF isMuted THEN FALSE ELSE TRUE
    /\ alert' = NoAlert
    /\ UNCHANGED <<user, storedUser, servers, activeServerId, activeChannelId,
                   isVoiceConnected, isLoading, isDeafened, draft,
                   realtimeChannelsRef, subscriptions, effectDep, effectCleanup,
                   mounted, pending, db, sent, arrivals>>

\* The toggle the first half of the comment of line 233 describes: undeafening
\* leaves mute as it is.
toggleDeafenKeepsMute ==
    /\ Idle /\ MainShown /\ activeServer # NoServer
    /\ IF isDeafened
       THEN isDeafened' = FALSE /\ isMuted' = isMuted
       ELSE isDeafened' = TRUE /\ isMuted' = TRUE
    /\ alert' = NoAlert
    /\ UNCHANGED <<user, storedUser, servers, activeServerId, activeChannelId,
                   isVoiceConnected, isLoading, draft,
                   realtimeChannelsRef, subscriptions, effectDep, effectCleanup,
                   mounted, pending, db, sent, arrivals>>

\* toggleDeafen (lines 231-241).
toggleDeafen ==
    /\ Idle /\ MainShown /\ activeServer # NoServer
    /\ IF isDeafened
       THEN isDeafened' = FALSE /\ isMuted' = FALSE
       ELSE isDeafened' = TRUE /\ isMuted' = TRUE
    /\ alert' = NoAlert
    /\ UNCHANGED <<user, storedUser, servers, activeServerId, activeChannelId,
                   isVoiceConnected, isLoading, draft,
                   realtimeChannelsRef, subscriptions, effectDep, effectCleanup,
                   mounted, pending, db, sent, arrivals>>

(***************************************************************************)
(* Server settings.                                                        *)
(***************************************************************************)
SettingsPasswords == {NoPassword, "pw"}

\* ServerSettingsModal opens on the active server (lines 294, 359-365) and
\* edits the record it was given.
onOpenServerSettings ==
    /\ Idle /\ MainShown /\ activeServer # NoServer
    /\ draft = NoServer
    /\ draft' = activeServer
    /\ alert' = NoAlert
    /\ UNCHANGED <<user, storedUser, servers, activeServerId, activeChannelId,
                   isVoiceConnected, isLoading, isMuted, isDeafened,
                   realtimeChannelsRef, subscriptions, effectDep, effectCleanup,
                   mounted, pending, db, sent, arrivals>>

\* handleUpdateServer (lines 188-191): replace-by-identifier, no remote write.
handleUpdateServer(updatedServer) ==
    /\ Idle /\ MainShown /\ activeServer # NoServer
    /\ servers' = [i \in DOMAIN servers |->
                     IF servers[i].id = updatedServer.id
                     THEN updatedServer ELSE servers[i]]
    /\ draft' = NoServer
    /\ alert' = NoAlert
    /\ UNCHANGED <<user, storedUser, activeServerId, activeChannelId,
                   isVoiceConnected, isLoading, isMuted, isDeafened,
                   realtimeChannelsRef, subscriptions, effectDep, effectCleanup,
                   mounted, pending, db, sent, arrivals>>

\* The modal saves the record it edited, with the password field as typed.
onUpdateServer(password) ==
    /\ draft # NoServer
    /\ handleUpdateServer([draft EXCEPT !.password = password])

(***************************************************************************)
(* The subscription effect (lines 90-124).  React runs the cleanup of the  *)
(* previous run, then the body, whenever activeChannelId differs from the  *)
(* value the previous run saw; unmounting runs the cleanup alone.          *)
(***************************************************************************)
\* unsubscribe(handle): closing a closed subscription does nothing.
unsubscribeFromChannel(subs, channelId) ==
    [subs EXCEPT ![channelId] = IF @ > 0 THEN @ - 1 ELSE 0]

\* subscribe-to-channel: one more open subscription for the channel.
subscribeToChannel(subs, channelId) ==
    [subs EXCEPT ![channelId] = @ + 1]

\* A cleanup that closes the subscription and leaves its registry entry.
SubscriptionCleanupKeepsEntry ==
    /\ mounted /\ effectDep # activeChannelId
    /\ effectCleanup # NoId
    /\ subscriptions' = [subscriptions EXCEPT ![effectCleanup] = IF @ > 0 THEN @ - 1 ELSE 0]
    /\ effectCleanup' = NoId
    /\ alert' = NoAlert
    /\ UNCHANGED <<user, storedUser, servers, activeServerId, activeChannelId,
                   isVoiceConnected, isLoading, isMuted, isDeafened, draft,
                   realtimeChannelsRef, effectDep, mounted, pending, db, sent,
                   arrivals>>

\* The cleanup closure (lines 118-123) of the previous run.
SubscriptionCleanup ==
    /\ mounted /\ effectDep # activeChannelId
    /\ effectCleanup # NoId
    /\ subscriptions' = unsubscribeFromChannel(subscriptions, effectCleanup)
    /\ realtimeChannelsRef' = realtimeChannelsRef \ {effectCleanup}
    /\ effectCleanup' = NoId
    /\ alert' = NoAlert
    /\ UNCHANGED <<user, storedUser, servers, activeServerId, activeChannelId,
                   isVoiceConnected, isLoading, isMuted, isDeafened, draft,
                   effectDep, mounted, pending, db, sent, arrivals>>

\* The effect body (lines 91-116).
SubscriptionEffect ==
    /\ mounted /\ effectDep # activeChannelId
    /\ effectCleanup = NoId
    /\ effectDep' = activeChannelId
    /\ IF activeChannelId = NoId \/ activeChannelId \in realtimeChannelsRef
       THEN UNCHANGED <<subscriptions, realtimeChannelsRef, effectCleanup>>
       ELSE /\ subscriptions' = subscribeToChannel(subscriptions, activeChannelId)
            /\ realtimeChannelsRef' = realtimeChannelsRef \cup {activeChannelId}
            /\ effectCleanup' = activeChannelId
    /\ alert' = NoAlert
    /\ UNCHANGED <<user, storedUser, servers, activeServerId, activeChannelId,
                   isVoiceConnected, isLoading, isMuted, isDeafened, draft,
                   mounted, pending, db, sent, arrivals>>

\* A teardown that does not call the cleanup of the last run.
UnmountWithoutCleanup ==
    /\ mounted
    /\ mounted' = FALSE
    /\ alert' = NoAlert
    /\ UNCHANGED <<user, storedUser, servers, activeServerId, activeChannelId,
                   isVoiceConnected, isLoading, isMuted, isDeafened, draft,
                   realtimeChannelsRef, subscriptions, effectDep, effectCleanup,
                   pending, db, sent, arrivals>>

\* The component is torn down: the last run's cleanup is called.
Unmount ==
    /\ mounted
    /\ mounted' = FALSE
    /\ IF effectCleanup # NoId
       THEN /\ subscriptions' = unsubscribeFromChannel(subscriptions, effectCleanup)
            /\ realtimeChannelsRef' = realtimeChannelsRef \ {effectCleanup}
            /\ effectCleanup' = NoId
       ELSE UNCHANGED <<subscriptions, realtimeChannelsRef, effectCleanup>>
    /\ alert' = NoAlert
    /\ UNCHANGED <<user, storedUser, servers, activeServerId, activeChannelId,
                   isVoiceConnected, isLoading, isMuted, isDeafened, draft,
                   effectDep, pending, db, sent, arrivals>>

(***************************************************************************)
(* The component and the service together.                                 *)
(***************************************************************************)
Next ==
    \/ Bootstrap
    \/ handleLogin(Me)
    \/ \E r \in pending, ok \in BOOLEAN : handleLoginUpsertSettles(r, ok)
    \/ \E r \in pending, ok \in BOOLEAN : loadUserServersSettles(r, ok)
    \/ handleCreateServer("gamma", NoPassword)
    \/ \E r \in pending, ok \in BOOLEAN : handleCreateServerWriteSettles(r, ok)
    \/ \E r \in pending, ok \in BOOLEAN : handleCreateServerLoadSettles(r, ok)
    \/ \E name \in JoinNames, password \in JoinPasswords : handleJoinServer(name, password)
    \/ \E r \in pending, ok \in BOOLEAN : handleJoinServerWriteSettles(r, ok)
    \/ \E r \in pending, ok \in BOOLEAN : handleJoinServerLoadSettles(r, ok)
    \/ onSendMessage
    \/ \E c \in ChannelIds : handleGeminiResponse(c)
    \/ \E r \in pending, ok \in BOOLEAN : handleSendMessageSettles(r, ok)
    \/ \E c \in ChannelIds : OtherClientSends(c)
    \/ \E m \in sent : onMessage(m)
    \/ \E id \in ServerIds : onSelectServer(id)
    \/ \E id \in ChannelIds : onSelectChannel(id)
    \/ onLeave
    \/ toggleMute
    \/ toggleDeafen
    \/ onOpenServerSettings
    \/ \E password \in SettingsPasswords : onUpdateServer(password)
    \/ SubscriptionCleanup
    \/ SubscriptionEffect
    \/ Unmount

Spec == Init /\ [][Next]_vars

(***************************************************************************)
(* Sub-relations of Next.  Every behaviour of one of the specifications    *)
(* below is a behaviour of Spec.  Each keeps the session start and the     *)
(* navigation, and adds one group of handlers; the groups touch disjoint   *)
(* parts of the state (membership and selection, messages, audio flags     *)
(* and settings), which keeps the state space of each within reach.        *)
(***************************************************************************)
\* Session start: the mount effect and the login page.
NextSession ==
    \/ Bootstrap
    \/ handleLogin(Me)
    \/ \E r \in pending, ok \in BOOLEAN : handleLoginUpsertSettles(r, ok)
    \/ \E r \in pending, ok \in BOOLEAN : loadUserServersSettles(r, ok)

\* Choosing a server and a channel, and the effect that follows the choice.
NextNavigation ==
    \/ \E id \in ServerIds : onSelectServer(id)
    \/ \E id \in ChannelIds : onSelectChannel(id)
    \/ onLeave
    \/ SubscriptionCleanup
    \/ SubscriptionEffect

\* Session, navigation and joining a server.
NextMembership ==
    \/ NextSession
    \/ NextNavigation
    \/ \E name \in JoinNames, password \in JoinPasswords : handleJoinServer(name, password)
    \/ \E r \in pending, ok \in BOOLEAN : handleJoinServerWriteSettles(r, ok)
    \/ \E r \in pending, ok \in BOOLEAN : handleJoinServerLoadSettles(r, ok)

SpecMembership == Init /\ [][NextMembership]_vars

\* Every handler that writes activeServerId or activeChannelId: session,
\* navigation, joining and creating a server.
NextSelection ==
    \/ NextMembership
    \/ handleCreateServer("gamma", NoPassword)
    \/ \E r \in pending, ok \in BOOLEAN : handleCreateServerWriteSettles(r, ok)
    \/ \E r \in pending, ok \in BOOLEAN : handleCreateServerLoadSettles(r, ok)

SpecSelection == Init /\ [][NextSelection]_vars

\* Session, navigation and this client's own messages: sending them, and the
\* realtime bridge bringing them back.
NextMessages ==
    \/ NextSession
    \/ NextNavigation
    \/ onSendMessage
    \/ \E c \in ChannelIds : handleGeminiResponse(c)
    \/ \E r \in pending, ok \in BOOLEAN : handleSendMessageSettles(r, ok)
    \/ \E m \in sent : onMessage(m)

SpecMessages == Init /\ [][NextMessages]_vars

\* Session, navigation and the realtime bridge fed by other clients' messages.
NextBridge ==
    \/ NextSession
    \/ NextNavigation
    \/ \E c \in ChannelIds : OtherClientSends(c)
    \/ \E m \in sent : onMessage(m)

SpecBridge == Init /\ [][NextBridge]_vars

\* Session, navigation and the handlers that touch local state only: the
\* audio toggles and the server settings.
NextLocal ==
    \/ NextSession
    \/ NextNavigation
    \/ toggleMute
    \/ toggleDeafen
    \/ onOpenServerSettings
    \/ \E password \in SettingsPasswords : onUpdateServer(password)

SpecLocal == InitAnyRows /\ [][NextLocal]_vars

\* Session, navigation, joining a server, and the teardown of the component.
NextLifecycle ==
    \/ NextMembership
    \/ Unmount

SpecLifecycle == Init /\ [][NextLifecycle]_vars

\* Session, creating a server, the subscription effect and the realtime bridge
\* fed by other clients' messages: the selection moves only through
\* loadUserServers and handleCreateServer.
NextInbound ==
    \/ NextSession
    \/ handleCreateServer("gamma", NoPassword)
    \/ \E r \in pending, ok \in BOOLEAN : handleCreateServerWriteSettles(r, ok)
    \/ \E r \in pending, ok \in BOOLEAN : handleCreateServerLoadSettles(r, ok)
    \/ SubscriptionCleanup
    \/ SubscriptionEffect
    \/ \E c \in ChannelIds : OtherClientSends(c)
    \/ \E m \in sent : onMessage(m)

SpecInbound == Init /\ [][NextInbound]_vars

\* The three writers of servers side by side: the realtime bridge fed by other
\* clients' messages, the reload of handleJoinServer (joining server beta with
\* its password), and the server settings.
NextInterleaving ==
    \/ NextSession
    \/ SubscriptionCleanup
    \/ SubscriptionEffect
    \/ \E c \in ChannelIds : OtherClientSends(c)
    \/ \E m \in sent : onMessage(m)
    \/ handleJoinServer("beta", "pw")
    \/ \E r \in pending, ok \in BOOLEAN : handleJoinServerWriteSettles(r, ok)
    \/ \E r \in pending, ok \in BOOLEAN : handleJoinServerLoadSettles(r, ok)
    \/ onOpenServerSettings
    \/ \E password \in SettingsPasswords : onUpdateServer(password)

SpecInterleaving == Init /\ [][NextInterleaving]_vars

(***************************************************************************)
(* Properties.                                                             *)
(***************************************************************************)
Range(seq) == { seq[i] : i \in DOMAIN seq }

NoDuplicates(seq) == \A i, j \in DOMAIN seq : seq[i] = seq[j] => i = j

\* The identifiers of the events for one channel, each at its first arrival.
RECURSIVE FirstArrivals(_, _)
FirstArrivals(events, channelId) ==
    IF events = <<>> THEN <<>>
    ELSE LET front == FirstArrivals(SubSeq(events, 1, Len(events) - 1), channelId)
             last  == events[Len(events)]
         IN  IF last.channelId = channelId /\ last.id \notin Range(front)
             THEN Append(front, last.id)
             ELSE front

\* C1: whatever events the bridge handler has been given, repeats included,
\* every channel's message list holds each identifier at most once, and holds
\* the identifiers the handler merged in the order of their first arrival.
C1_MergedOnceInArrivalOrder ==
    \A c \in ChannelIds :
        /\ NoDuplicates(MessagesOf(servers, c))
        /\ MessagesOf(servers, c) = FirstArrivals(arrivals, c)

\* A repeated event was delivered and two different messages sit in one list.
C1_Witness ==
    /\ \E i, j \in DOMAIN arrivals : i < j /\ arrivals[i] = arrivals[j]
    /\ \E c \in ChannelIds : Len(MessagesOf(servers, c)) >= 2

\* C2: activeServerId is null or names a loaded server, and activeChannelId is
\* null or names a channel of that server.
C2_SelectionIsLoaded ==
    /\ activeServerId = NoId \/ \E i \in DOMAIN servers : servers[i].id = activeServerId
    /\ activeChannelId = NoId
         \/ \E j \in DOMAIN activeServer.channels :
                activeServer.channels[j].id = activeChannelId

\* C3: once the effect has processed the current activeChannelId, the open
\* subscriptions and the registry hold exactly that channel (nothing when it is
\* null); and no channel ever has two open subscriptions.
C3_OneSubscriptionForActiveChannel ==
    /\ \A c \in ChannelIds : subscriptions[c] <= 1
    /\ (mounted /\ effectDep = activeChannelId) =>
          /\ \A c \in ChannelIds :
                subscriptions[c] = IF c = activeChannelId THEN 1 ELSE 0
          /\ realtimeChannelsRef = {c \in ChannelIds : c = activeChannelId}

\* The selection moved from the default channel 11 to channel 12 and the effect
\* has run: 11 is closed, 12 is open.
C3_Witness ==
    /\ effectDep = 12 /\ activeChannelId = 12
    /\ subscriptions[12] = 1 /\ subscriptions[11] = 0
    /\ realtimeChannelsRef = {12}

\* The display agrees with the type of the active channel.
DisplayFollowsChannelType ==
    /\ activeChannel.type = "voice" => isVoiceConnected /\ Panel = "VoiceStage"
    /\ activeChannel.type = "text" => ~isVoiceConnected /\ Panel = "ChatArea"

\* C4: after every step that changes the active channel, a voice channel is
\* shown in the voice display state and a text channel in the chat display state.
C4_ChannelChangeSetsDisplay ==
    [][activeChannelId' # activeChannelId => DisplayFollowsChannelType']_vars

C6_DeafenForcesMute ==
    [][toggleDeafen =>
          /\ isDeafened' = ~isDeafened
          /\ isDeafened' => isMuted'
          /\ ~isDeafened' => ~isMuted']_vars

\* Deafen has been turned on.
C6_Witness == isDeafened /\ isMuted

C8_WrongPasswordChangesNothing ==
    [][\A name \in JoinNames, password \in JoinPasswords :
          (/\ handleJoinServer(name, password)
           /\ FindServerByName(servers, name) # NoServer
           /\ FindServerByName(servers, name).password # NoPassword
           /\ FindServerByName(servers, name).password # password) =>
             /\ pending' = pending
             /\ db' = db
             /\ servers' = servers
             /\ activeServerId' = activeServerId
             /\ activeChannelId' = activeChannelId]_vars

\* The join was refused.
C8_Witness == alert = "Incorrect password!"

\* C9: neither half of handleSendMessage changes servers, whether the write
\* resolves or rejects; a message list grows only in a step of the bridge handler.
C9_SendLeavesServersAlone ==
    [][/\ ((\E c \in ChannelIds : handleSendMessage(c))
            \/ (\E r \in pending, ok \in BOOLEAN : handleSendMessageSettles(r, ok)))
          => servers' = servers
       /\ (\E c \in ChannelIds :
              Len(MessagesOf(servers', c)) > Len(MessagesOf(servers, c)))
          => \E m \in sent : onMessage(m)]_vars

\* A message of this user is stored remotely, nothing is in flight, and the
\* message is in no local list.
C9_Witness ==
    /\ pending = {}
    /\ \E m \in sent :
          /\ m.senderId = Me
          /\ m.id \notin Range(MessagesOf(servers, m.channelId))

\* C10: onLeave clears isVoiceConnected and moves the selection to the first
\* text channel of the active server, or leaves it when there is none.
C10_LeaveReturnsToFirstText ==
    [][onLeave =>
          /\ isVoiceConnected' = FALSE
          /\ LET texts == { j \in DOMAIN activeServer.channels :
                              activeServer.channels[j].type = "text" }
             IN  IF texts = {}
                 THEN activeChannelId' = activeChannelId
                 ELSE \E j \in texts :
                        /\ \A k \in texts : j <= k
                        /\ activeChannelId' = activeServer.channels[j].id]_vars

\* The voice stage is on screen in a server whose first channel is a voice
\* channel and which has a text channel further down: onLeave can be invoked, and
\* the channel it must return to is not the server's first.
C10_Witness ==
    /\ mounted /\ effectDep = activeChannelId
    /\ Panel = "VoiceStage"
    /\ activeServer.channels[1].type = "voice"
    /\ FindTextChannel(activeServer) # NoChannel

\* C11: a subscription is closed only by the cleanup of the effect run that
\* opened it, it is open when it is closed (so it is closed once), and it is
\* closed together with its registry entry, either in a teardown or after the
\* active channel has moved away from its channel; a subscription is opened
\* only when every other one is closed and the registry is empty; and once the
\* component is torn down no subscription is open and the registry is empty.
C11_SubscriptionClosedOnceOnChangeOrTeardown ==
    [][/\ \A c \in ChannelIds :
             subscriptions'[c] < subscriptions[c] =>
                /\ subscriptions[c] = 1 /\ subscriptions'[c] = 0
                /\ effectCleanup = c /\ effectCleanup' = NoId
                /\ c \in realtimeChannelsRef /\ c \notin realtimeChannelsRef'
                /\ ~mounted' \/ activeChannelId # c
       /\ \A c \in ChannelIds :
             subscriptions'[c] > subscriptions[c] =>
                /\ activeChannelId = c
                /\ \A d \in ChannelIds : subscriptions[d] = 0
                /\ realtimeChannelsRef = {}
                /\ realtimeChannelsRef' = {c}
       /\ ~mounted' =>
             /\ \A c \in ChannelIds : subscriptions'[c] = 0
             /\ realtimeChannelsRef' = {}
             /\ effectCleanup' = NoId]_vars

\* The component was torn down while channel 12, selected after the default
\* channel 11, was subscribed: both subscriptions are closed.
C11_Witness ==
    /\ ~mounted
    /\ effectDep = 12 /\ activeChannelId = 12
    /\ \A c \in ChannelIds : subscriptions[c] = 0
    /\ realtimeChannelsRef = {}

\* A server record with the messages of one of its channels left out of the
\* comparison.
WithoutMessagesOf(server, channelId) ==
    [server EXCEPT !.channels =
        [j \in DOMAIN server.channels |->
            IF server.channels[j].id = channelId
            THEN [server.channels[j] EXCEPT !.messages = <<>>]
            ELSE server.channels[j]]]

\* C12: a step of the bridge handler changes nothing but servers.  When no
\* loaded server has the channel of the message, or the channel already holds
\* the message's id, servers is unchanged; otherwise the message is appended to
\* the end of that channel's list and everything else in servers (the other
\* servers, the other channels, the other fields) is as before.
C12_InboundAppendsToItsChannelOnly ==
    [][\A m \in sent :
          onMessage(m) =>
             /\ UNCHANGED <<user, storedUser, activeServerId, activeChannelId,
                            isVoiceConnected, isLoading, isMuted, isDeafened, draft,
                            realtimeChannelsRef, subscriptions, effectDep,
                            effectCleanup, mounted, pending, db, sent>>
             /\ IF \/ m.channelId \notin LoadedChannelIds(servers)
                   \/ m.id \in Range(MessagesOf(servers, m.channelId))
                THEN servers' = servers
                ELSE /\ MessagesOf(servers', m.channelId) =
                          Append(MessagesOf(servers, m.channelId), m.id)
                     /\ DOMAIN servers' = DOMAIN servers
                     /\ \A i \in DOMAIN servers :
                           WithoutMessagesOf(servers'[i], m.channelId) =
                              WithoutMessagesOf(servers[i], m.channelId)]_vars

\* The handler has been given a repeated event and an event for a channel of no
\* loaded server, and has appended an event to a loaded channel.
C12_Witness ==
    /\ \E i, j \in DOMAIN arrivals : i < j /\ arrivals[i] = arrivals[j]
    /\ \E i \in DOMAIN arrivals :
          arrivals[i].channelId \notin LoadedChannelIds(servers)
    /\ \E i \in DOMAIN arrivals :
          arrivals[i].id \in Range(MessagesOf(servers, arrivals[i].channelId))

\* C13: when the fetch inside loadUserServers rejects, the continuation leaves
\* servers, activeServerId and activeChannelId as they are, and the caller goes
\* on as after a resolved call: the mount effect and handleLogin raise no
\* alert, and handleJoinServer proceeds to its selection.
C13_LoadFailureKeepsState ==
    [][\A r \in pending :
          /\ r.stage = "load" =>
                loadUserServers(r, FALSE) =
                   [servers |-> servers,
                    activeServerId |-> activeServerId,
                    activeChannelId |-> activeChannelId]
          /\ loadUserServersSettles(r, FALSE) =>
                /\ servers' = servers
                /\ activeServerId' = activeServerId
                /\ activeChannelId' = activeChannelId
                /\ alert' = NoAlert
                /\ user' = user /\ storedUser' = storedUser
          /\ handleJoinServerLoadSettles(r, FALSE) =>
                /\ servers' = servers
                /\ alert' = NoAlert
                /\ activeServerId' = r.sid /\ activeChannelId' = r.cid]_vars

\* The user is set, no call is in flight and nothing is loaded: the backend
\* holds rows, so the one fetch of this session was rejected.
C13_Witness ==
    /\ user = Me /\ ~isLoading /\ pending = {}
    /\ db # <<>>
    /\ servers = <<>> /\ activeServerId = NoId /\ activeChannelId = NoId

\* The parts of the create-server sequence that come before its last step:
\* the call issues the remote create and nothing else; a resolved create
\* issues the reload and leaves the selection alone; a rejected create issues
\* no reload and leaves servers and the selection alone.
CreateThenReload ==
    /\ handleCreateServer("gamma", NoPassword) =>
          /\ \E q \in pending' \ pending : q.op = "create" /\ q.stage = "create"
          /\ UNCHANGED <<db, servers, activeServerId, activeChannelId>>
    /\ \A r \in pending :
          /\ handleCreateServerWriteSettles(r, TRUE) =>
                /\ \E i \in DOMAIN db' : db'[i].id = r.sid
                /\ \E q \in pending' \ pending :
                      q.op = "create" /\ q.stage = "load" /\ q.sid = r.sid
                /\ UNCHANGED <<servers, activeServerId, activeChannelId>>
          /\ handleCreateServerWriteSettles(r, FALSE) =>
                /\ pending' = pending \ {r}
                /\ UNCHANGED <<db, servers, activeServerId, activeChannelId>>

\* C14: handleCreateServer performs the remote create, then the reload, then
\* the selection; when it completes, the selection is the new server and its
\* first channel and the new server is in the loaded list; when the create
\* rejects, no reload is issued and servers and the selection are unchanged.
C14_CreateSelectsLoadedServer ==
    [][/\ CreateThenReload
       /\ \A r \in pending, ok \in BOOLEAN :
             handleCreateServerLoadSettles(r, ok) =>
                /\ activeServerId' = r.sid
                /\ \E i \in DOMAIN servers' :
                      /\ servers'[i].id = r.sid
                      /\ activeChannelId' = servers'[i].channels[1].id]_vars

\* The same with the last step taken only when the reload's fetch resolved.
C14_WhenReloadResolves ==
    [][/\ CreateThenReload
       /\ \A r \in pending :
             handleCreateServerLoadSettles(r, TRUE) =>
                /\ activeServerId' = r.sid
                /\ \E i \in DOMAIN servers' :
                      /\ servers'[i].id = r.sid
                      /\ activeChannelId' = servers'[i].channels[1].id]_vars

\* C15: a handleJoinServer call issues the membership write exactly when a
\* loaded server has the name, its password test passes and the user is not in
\* its member list.  The selection is unchanged when no loaded server has the
\* name and when the write rejects; it becomes the target and the target's
\* first channel when the user is a member already and, after the reload,
\* when the write resolved.
C15_JoinWritesAndSelects ==
    [][/\ \A name \in JoinNames, password \in JoinPasswords :
             handleJoinServer(name, password) =>
                LET target == FindServerByName(servers, name)
                    passes == /\ target # NoServer
                              /\ (target.password = NoPassword \/ target.password = password)
                    writes == passes /\ user \notin target.members
                IN  /\ writes <=>
                          \E q \in pending' \ pending :
                              q.op = "join" /\ q.stage = "join" /\ q.sid = target.id
                    /\ ~writes => pending' = pending
                    /\ db' = db
                    /\ target = NoServer =>
                          UNCHANGED <<activeServerId, activeChannelId>>
                    /\ (passes /\ ~writes) =>
                          /\ activeServerId' = target.id
                          /\ activeChannelId' = target.channels[1].id
       /\ \A r \in pending :
             /\ handleJoinServerWriteSettles(r, FALSE) =>
                   /\ UNCHANGED <<activeServerId, activeChannelId, db>>
                   /\ pending' = pending \ {r}
             /\ handleJoinServerWriteSettles(r, TRUE) =>
                   \E i \in DOMAIN db' : db'[i].id = r.sid /\ r.who \in db'[i].members
             /\ \A ok \in BOOLEAN :
                   handleJoinServerLoadSettles(r, ok) =>
                      /\ activeServerId' = r.sid
                      /\ FindServerById(servers', r.sid) # NoServer
                      /\ activeChannelId' =
                            FindServerById(servers', r.sid).channels[1].id]_vars

\* The membership write was rejected while server 1 was selected: the
\* selection is still server 1.
C15_Witness ==
    /\ alert = "Failed to join server. Please try again."
    /\ activeServerId = 1
    /\ \A i \in DOMAIN db : db[i].id = 2 => Me \notin db[i].members

\* A remote call of handleLogin, handleCreateServer or handleJoinServer is
\* rejected in this step: the write of the handler, or the fetch of the
\* loadUserServers it awaits.
UserActionCallRejected(r) ==
    \/ handleLoginUpsertSettles(r, FALSE)
    \/ handleCreateServerWriteSettles(r, FALSE)
    \/ handleJoinServerWriteSettles(r, FALSE)
    \/ r.op = "login" /\ loadUserServersSettles(r, FALSE)
    \/ handleCreateServerLoadSettles(r, FALSE)
    \/ handleJoinServerLoadSettles(r, FALSE)

\* C16: every rejected remote call of a login, create-server or join-server
\* action raises an alert.
C16_UserActionFailureAlerts ==
    [][\A r \in pending : UserActionCallRejected(r) => alert' # NoAlert]_vars

\* The writes of the three handlers alone: each rejected one raises an alert.
C16_RejectedWriteAlerts ==
    [][\A r \in pending :
          (\/ handleLoginUpsertSettles(r, FALSE)
           \/ handleCreateServerWriteSettles(r, FALSE)
           \/ handleJoinServerWriteSettles(r, FALSE)) => alert' # NoAlert]_vars

\* C17: a toggleMute called while isMuted is true leaves isDeafened false.
C17_UnmuteClearsDeafen ==
    [][(toggleMute /\ isMuted) => ~isDeafened']_vars

\* C18: a message that is in the list of a channel stays in that list in every
\* step after which the channel is still loaded.
C18_MergedMessagesSurvive ==
    [][\A c \in ChannelIds :
          c \in LoadedChannelIds(servers') =>
             Range(MessagesOf(servers, c)) \subseteq Range(MessagesOf(servers', c))]_vars

\* The steps of the bridge handler keep every merged message.
C18_BridgeKeepsMessages ==
    [][\A m \in sent :
          onMessage(m) =>
             \A c \in ChannelIds :
                Range(MessagesOf(servers, c)) \subseteq Range(MessagesOf(servers', c))]_vars

\* C19: a loadUserServers that completes while a server is active leaves
\* activeServerId and activeChannelId as they are.
C19_LoadKeepsExistingSelection ==
    [][\A r \in pending, ok \in BOOLEAN :
          (loadUserServersSettles(r, ok) /\ activeServerId # NoId) =>
             UNCHANGED <<activeServerId, activeChannelId>>]_vars

\* A loadUserServers that completes while no server is active selects the
\* first loaded server and its first channel, or nothing when the list is
\* empty or the fetch was rejected.
C19_LoadSelectsDefaultWhenNone ==
    [][\A r \in pending, ok \in BOOLEAN :
          (loadUserServersSettles(r, ok) /\ activeServerId = NoId) =>
             \/ UNCHANGED <<activeServerId, activeChannelId>>
             \/ /\ servers' # <<>>
                /\ activeServerId' = servers'[1].id
                /\ activeChannelId' = servers'[1].channels[1].id]_vars

====
